---- MODULE Spec2Model ----
(***************************************************************************)
(* The embeddings server: POST /embed (validate, embed, upsert) and        *)
(* POST /ingest-all-closed (paged bulk ingestion with duplicate check,     *)
(* short-summary filter and an optional processing limit), as written in   *)
(* the final server.js (src/unnamed/part_002).                             *)
(*                                                                         *)
(* Every handler is an async function: it runs without interruption from   *)
(* one await to the next, and other handlers run in between.  Each action  *)
(* below is one such stretch of a handler.                                 *)
(***************************************************************************)
EXTENDS Integers, Sequences, FiniteSets, TLC

----------------------------------------------------------------------------
(* Bounds of the model. *)

\* the source population holds at most MaxTickets records
MaxTickets == 2
\* ticket ids are 1..MaxId
MaxId == 2
\* the source serves pages of 1..MaxPageSize records
MaxPageSize == 2
\* ?limit= values 0..MaxLimit are tried
MaxLimit == 2
\* bulk-ingestion invocations per behaviour
MaxRuns == 2
\* direct POST /embed requests per behaviour
MaxDirect == 1
\* failures of the collaborators (source, provider, store, loopback) per behaviour
MaxFaults == 1
\* the source population under two overlapping invocations holds at most OverlapTickets
OverlapTickets == 1
\* clients that post /embed at the same time
MaxWriters == 2

----------------------------------------------------------------------------
(* Strings are sequences of one-character strings. *)

\* the minimum trimmed summary length of /embed and of the bulk filter
MinLength == 10

WhiteSpace == {" ", "\t", "\n"}

Rep(c, n) == [i \in 1..n |-> c]

\* a request body or ticket without a summary field (undefined / null)
NoSummary == <<"undefined">>

RECURSIVE TrimStart(_)
TrimStart(s) ==
  IF s = <<>> THEN s
  ELSE IF Head(s) \in WhiteSpace THEN TrimStart(Tail(s)) ELSE s

RECURSIVE TrimEnd(_)
TrimEnd(s) ==
  IF s = <<>> THEN s
  ELSE IF s[Len(s)] \in WhiteSpace THEN TrimEnd(SubSeq(s, 1, Len(s) - 1)) ELSE s

\* String.prototype.trim
Trim(s) == TrimEnd(TrimStart(s))

\* the summary, had it not been trimmed
UntrimmedSummary(summary) ==
  IF summary = NoSummary \/ summary = <<>> THEN <<>> ELSE summary

\* (summary || "").trim()
CleanSummary(summary) ==
  Trim(IF summary = NoSummary \/ summary = <<>> THEN <<>> ELSE summary)

\* the length test, had it refused the empty summary alone
TooShortEmptyOnly(clean) == clean = <<>>

\* !cleanSummary || cleanSummary.length < 10
TooShort(clean) == clean = <<>> \/ Len(clean) < MinLength

----------------------------------------------------------------------------
(* parseInt(req.query.limit || "0", 10) *)

Digits == {"0", "1", "2", "3", "4", "5", "6", "7", "8", "9"}

DigitVal(c) == CHOOSE d \in 0..9 : ToString(d) = c

\* a missing ?limit= parameter
NoLimit == <<"undefined">>

NaN == [nan |-> TRUE, val |-> 0]

Num(n) == [nan |-> FALSE, val |-> n]

\* the value of the longest prefix of digits of s, starting from acc
RECURSIVE DigitPrefix(_, _)
DigitPrefix(s, acc) ==
  IF s = <<>> \/ Head(s) \notin Digits THEN acc
  ELSE DigitPrefix(Tail(s), 10 * acc + DigitVal(Head(s)))

\* parseInt(s, 10): leading white space, an optional sign, then digits;
\* NaN when no digit follows
ParseInt(str) ==
  LET s    == TrimStart(str)
      neg  == s # <<>> /\ Head(s) = "-"
      body == IF s # <<>> /\ Head(s) \in {"-", "+"} THEN Tail(s) ELSE s
  IN  IF body = <<>> \/ Head(body) \notin Digits THEN NaN
      ELSE Num(IF neg THEN 0 - DigitPrefix(body, 0) ELSE DigitPrefix(body, 0))

\* const limit = parseInt(req.query.limit || "0", 10)
ParseLimit(q) == ParseInt(IF q = NoLimit \/ q = <<>> THEN <<"0">> ELSE q)

\* limit > 0 (false for NaN)
LimitSet(limit) == ~limit.nan /\ limit.val > 0

\* the limit check, had it compared with > (one ticket too many)
LimitExceeded(limit, processed) == LimitSet(limit) /\ processed > limit.val

\* the limit check, had it left out limit > 0
LimitReachedOrZero(limit, processed) == ~limit.nan /\ processed >= limit.val

\* limit > 0 && processed >= limit
LimitReached(limit, processed) == LimitSet(limit) /\ processed >= limit.val

----------------------------------------------------------------------------
(* The embedding provider and the pgvector literal. *)

\* what client.embeddings.create answers for a text: result.data[0].embedding
Embedding(text) ==
  [isArray |-> TRUE,
   items   |-> <<Len(text), Cardinality({i \in 1..Len(text) : text[i] \in WhiteSpace})>>]

\* a response whose data[0].embedding is not an array
Malformed == [isArray |-> FALSE, items |-> <<>>]

\* err.message of a rejected provider call and of a rejected query
ProviderMessage == "provider call failed"

QueryMessage == "query failed"

RECURSIVE Join(_)
Join(arr) ==
  IF arr = <<>> THEN <<>>
  ELSE IF Len(arr) = 1 THEN <<ToString(Head(arr))>>
  ELSE <<ToString(Head(arr)), ",">> \o Join(Tail(arr))

\* toPgVector: throws unless arr is an array, else `[${arr.join(",")}]`
ToPgVector(arr) ==
  IF ~arr.isArray
  THEN [threw |-> TRUE, message |-> "Embedding is not an array!", value |-> <<>>]
  ELSE [threw |-> FALSE, message |-> "", value |-> <<"[">> \o Join(arr.items) \o <<"]">>]

----------------------------------------------------------------------------
(* The table ticket_embeddings: a set of rows. *)

\* the duplicate query, had it compared the surrogate id (WHERE id = $1)
RowCountById(rows, ticketNumber) ==
  IF \E r \in rows : r.id = ticketNumber THEN 1 ELSE 0

\* the duplicate query, had it never found a row
RowCountNone(rows, ticketNumber) == 0

\* SELECT 1 FROM ticket_embeddings WHERE ticket_number = $1 LIMIT 1: rowCount
RowCount(rows, ticketNumber) ==
  IF \E r \in rows : r.ticket_number = ticketNumber THEN 1 ELSE 0

\* the statement without its ON CONFLICT clause: a plain INSERT
InsertRows(rows, id, now, ticketNumber, summary, pgVector) ==
  rows \cup {[id |-> id, ticket_number |-> ticketNumber, summary |-> summary,
              embedding |-> pgVector, created_at |-> now]}

\* the statement, had its DO UPDATE left the embedding column out
UpsertRowsKeepingVector(rows, id, now, ticketNumber, summary, pgVector) ==
  IF \E r \in rows : r.ticket_number = ticketNumber
  THEN {IF r.ticket_number = ticketNumber
        THEN [r EXCEPT !.summary = summary, !.created_at = now]
        ELSE r : r \in rows}
  ELSE rows \cup {[id |-> id, ticket_number |-> ticketNumber, summary |-> summary,
                   embedding |-> pgVector, created_at |-> now]}

\* the statement, had it cleared the table before inserting
UpsertRowsReplacingTable(rows, id, now, ticketNumber, summary, pgVector) ==
  {[id |-> id, ticket_number |-> ticketNumber, summary |-> summary,
    embedding |-> pgVector, created_at |-> now]}

\* INSERT ... ON CONFLICT (ticket_number) DO UPDATE SET summary, embedding,
\* created_at = NOW(): the table after the statement
UpsertRows(rows, id, now, ticketNumber, summary, pgVector) ==
  IF \E r \in rows : r.ticket_number = ticketNumber
  THEN {IF r.ticket_number = ticketNumber
        THEN [r EXCEPT !.summary = summary, !.embedding = pgVector, !.created_at = now]
        ELSE r : r \in rows}
  ELSE rows \cup {[id |-> id, ticket_number |-> ticketNumber, summary |-> summary,
                   embedding |-> pgVector, created_at |-> now]}

\* RETURNING id
ReturningId(rows, ticketNumber) ==
  (CHOOSE r \in rows : r.ticket_number = ticketNumber).id

StoredIds(rows) == {r.ticket_number : r \in rows}

----------------------------------------------------------------------------
(* The ticket source: a fixed population served in pages. *)

Min(a, b) == IF a < b THEN a ELSE b

\* page number p (from 1) of the population at the given page size
PageOf(pop, size, p) == SubSeq(pop, (p - 1) * size + 1, Min(p * size, Len(pop)))

\* the body of a page response: a JSON array of tickets
ListBody(items) == [json |-> TRUE, array |-> TRUE, items |-> items]

\* a body that is JSON but no array (an error object)
ObjectBody == [json |-> TRUE, array |-> FALSE, items |-> <<>>]

\* a body that is no JSON at all (an HTML error page)
TextBody == [json |-> FALSE, array |-> FALSE, items |-> <<>>]

----------------------------------------------------------------------------
(* State. *)

VARIABLES
  population,   \* the tickets the source holds, in the order it serves them
  pageSize,     \* how many records the source puts on a page
  rows,         \* the table ticket_embeddings
  nextId,       \* the table's id sequence
  now,          \* the database clock: NOW() of the latest write
  ing,          \* per invocation slot: the /ingest-all-closed handler
  reqs,         \* per caller: the /embed handler serving that caller's request
  slots,        \* the invocation slots that may run
  inputs,       \* the summaries direct /embed requests carry
  runs,         \* bulk invocations started so far
  directs,      \* direct /embed requests posted so far
  faults        \* collaborator failures so far

vars ==
  <<population, pageSize, rows, nextId, now, ing, reqs, slots, inputs, runs, directs, faults>>

\* invocation slots of /ingest-all-closed; slot i posts its /embed calls as caller i
BulkSlots == {1, 2}

\* the k-th direct /embed request is caller DirectCaller(k)
DirectCaller(k) == 10 + k

\* the client of /match
MatchCaller == DirectCaller(MaxDirect + 1)

\* the k-th of the clients that post /embed at the same time
WriterCaller(k) == 20 + k

Callers ==
  BulkSlots \cup {DirectCaller(k) : k \in 1..MaxDirect} \cup {MatchCaller}
    \cup {WriterCaller(k) : k \in 1..MaxWriters}

\* summaries the source's tickets carry: none, 9 characters between blanks, 10 characters
SourceSummaries ==
  {NoSummary, <<" ">> \o Rep("x", MinLength - 1) \o <<" ">>, Rep("x", MinLength)}

Tickets == [id : 1..MaxId, summary : SourceSummaries]

RECURSIVE SeqsUpTo(_, _)
SeqsUpTo(S, n) ==
  IF n = 0 THEN {<<>>}
  ELSE LET shorter == SeqsUpTo(S, n - 1)
       IN  shorter \cup {Append(q, x) : q \in {r \in shorter : Len(r) = n - 1}, x \in S}

\* summaries a direct /embed request carries while bulk ingestion runs: too short
\* by trimming, and long enough but unlike any summary of the source
ConcurrentSummaries ==
  {<<" ">> \o Rep("x", MinLength - 1) \o <<" ">>, Rep("x", MinLength + 1)}

\* summaries a direct /embed request may carry
EmbedSummaries ==
  {NoSummary, <<>>, Rep(" ", MinLength + 1),
   Rep("x", MinLength - 1), <<" ">> \o Rep("x", MinLength - 1) \o <<"\t">>,
   Rep("x", 4) \o <<" ">> \o Rep("x", MinLength - 6),
   Rep("x", MinLength), <<"\n">> \o Rep("x", MinLength) \o <<" ">>,
   Rep("x", 4) \o <<" ">> \o Rep("x", MinLength - 5),
   Rep("x", MinLength + 1)}

\* values of ?limit= a caller may send
LimitInputs ==
  {NoLimit, <<"x">>} \cup {<<ToString(n)>> : n \in 0..MaxLimit}

\* responses of the source that are no page: an authentication failure answered
\* with a JSON error object or with text, a gateway's error page
FailedResponses ==
  {[status |-> 401, body |-> ObjectBody],
   [status |-> 401, body |-> TextBody],
   [status |-> 502, body |-> TextBody]}

NoResponse == [kind |-> "none"]

NoReq ==
  [pc |-> "none", ticketNumber |-> 0, summary |-> <<>>, clean |-> <<>>,
   pgVector |-> <<>>, dims |-> 0, res |-> NoResponse,
   \* the history of the request, which the handler does not read: calls of the
   \* provider made, statements sent to the store
   calls |-> 0, writes |-> 0,
   \* the database clock at which the statement of the request was committed
   at |-> 0]

IdleIng ==
  [pc |-> "idle", limit |-> Num(0), processed |-> 0, inserted |-> 0, skipped |-> 0,
   shortSummaries |-> 0, page |-> 0, tickets |-> <<>>, idx |-> 0, summary |-> <<>>,
   res |-> NoResponse,
   \* the history of the invocation, which the handler does not read:
   \* page requests sent; status and kind of body of the latest page response
   fetches |-> 0, status |-> 0, last |-> "none",
   \* the collaborator whose failure this invocation met
   failure |-> "none",
   \* whether the current ticket's id was stored when the loop reached the ticket;
   \* how many tickets with a long enough, and with a short, summary were
   curPresent |-> FALSE, presentLong |-> 0, presentShort |-> 0,
   \* duplicate queries sent, /embed calls posted, /embed calls answered not ok
   queries |-> 0, posts |-> 0, failed |-> 0,
   \* /embed calls answered not ok because of the provider
   providerFailed |-> 0,
   \* whether the invocation before this one was unbounded and ended on an empty
   \* page, and whether moreover none of its /embed calls failed
   afterExhausted |-> FALSE, afterClean |-> FALSE,
   \* whether the invocation before this one ended early: stopped by its limit,
   \* or failed on a page request
   afterEarly |-> FALSE,
   \* whether the invocation before this one was stopped by the same limit and
   \* none of its /embed calls failed
   afterSameCap |-> FALSE,
   \* the ticket numbers the table held, and the database clock, when the
   \* request arrived
   before |-> {}, startedAt |-> 0,
   \* responses sent to the client of the invocation
   responses |-> 0]

Init ==
  /\ population \in SeqsUpTo(Tickets, MaxTickets)
  /\ pageSize \in 1..MaxPageSize
  /\ rows = {}
  /\ nextId = 1
  /\ now = 0
  /\ ing = [i \in BulkSlots |-> IdleIng]
  /\ reqs = [c \in Callers |-> NoReq]
  /\ slots = {1}
  /\ inputs = ConcurrentSummaries
  /\ runs = 0
  /\ directs = 0
  /\ faults = 0

----------------------------------------------------------------------------
(* POST /ingest-all-closed: the synchronous stretches of the handler. *)

\* res.json({ok: true, inserted, skipped, shortSummaries}) after the loop
FinalReport(s) ==
  [kind |-> "report", status |-> 200, ok |-> TRUE, inserted |-> s.inserted,
   skipped |-> s.skipped, shortSummaries |-> s.shortSummaries, note |-> FALSE]

\* return res.json({ok: true, ..., note: "Stopped early ..."}) inside the loop
EarlyReport(s) ==
  [kind |-> "report", status |-> 200, ok |-> TRUE, inserted |-> s.inserted,
   skipped |-> s.skipped, shortSummaries |-> s.shortSummaries, note |-> TRUE]

\* return res.status(500).json({error: "CW returned invalid JSON", raw: text})
InvalidJson(body) == [kind |-> "invalid_json", status |-> 500, raw |-> body]

\* the outer catch: res.status(500).json({error: err.message, details: err.stack})
ErrorResponse == [kind |-> "error", status |-> 500]

\* the handler has sent r and returned
Ended(s, r) == [s EXCEPT !.pc = "end", !.res = r, !.responses = @ + 1]

RECURSIVE NextTicket(_, _)

\* the limit check, had res.json been called without return
AfterRecordNotReturning(s, table) ==
  LET counted == [s EXCEPT !.processed = @ + 1]
  IN  IF LimitReached(counted.limit, counted.processed)
      THEN NextTicket([counted EXCEPT !.res = EarlyReport(counted),
                                      !.responses = @ + 1], table)
      ELSE NextTicket(counted, table)

\* processed++ and the limit check that close one iteration of the for loop
AfterRecord(s, table) ==
  LET counted == [s EXCEPT !.processed = @ + 1]
  IN  IF LimitReached(counted.limit, counted.processed)
      THEN Ended(counted, EarlyReport(counted))
      ELSE NextTicket(counted, table)

\* the loop, had it advanced the page counter by two at the end of a page
NextTicketSkippingPage(s, table) ==
  IF s.idx = Len(s.tickets)
  THEN [s EXCEPT !.page = @ + 2, !.tickets = <<>>, !.idx = 0, !.pc = "fetch"]
  ELSE LET t       == s.tickets[s.idx + 1]
           summary == CleanSummary(t.summary)
           present == t.id \in StoredIds(table)
       IN  IF TooShort(summary)
           THEN AfterRecord([s EXCEPT !.idx = @ + 1, !.shortSummaries = @ + 1,
                                      !.presentShort = @ + (IF present THEN 1 ELSE 0)],
                            table)
           ELSE [s EXCEPT !.idx = @ + 1, !.summary = summary, !.pc = "exists",
                          !.queries = @ + 1, !.curPresent = present,
                          !.presentLong = @ + (IF present THEN 1 ELSE 0)]

\* the loop, had it sent every ticket on to the duplicate query and to /embed
\* without the length test
NextTicketUnfiltered(s, table) ==
  IF s.idx = Len(s.tickets)
  THEN [s EXCEPT !.page = @ + 1, !.tickets = <<>>, !.idx = 0, !.pc = "fetch"]
  ELSE LET t       == s.tickets[s.idx + 1]
           summary == CleanSummary(t.summary)
           present == t.id \in StoredIds(table)
       IN  [s EXCEPT !.idx = @ + 1, !.summary = summary, !.pc = "exists",
                     !.queries = @ + 1, !.curPresent = present,
                     !.presentLong = @ + (IF present THEN 1 ELSE 0)]

\* the head of the for loop, run until the handler awaits or returns: the end of
\* the page leads to page++ and the next fetch, a short summary is counted at
\* once, any other summary leads to the duplicate query
NextTicket(s, table) ==
  IF s.idx = Len(s.tickets)
  THEN [s EXCEPT !.page = @ + 1, !.tickets = <<>>, !.idx = 0, !.pc = "fetch"]
  ELSE LET t       == s.tickets[s.idx + 1]
           summary == CleanSummary(t.summary)
           present == t.id \in StoredIds(table)
       IN  IF TooShort(summary)
           THEN AfterRecord([s EXCEPT !.idx = @ + 1, !.shortSummaries = @ + 1,
                                      !.presentShort = @ + (IF present THEN 1 ELSE 0)],
                            table)
           ELSE [s EXCEPT !.idx = @ + 1, !.summary = summary, !.pc = "exists",
                          !.queries = @ + 1, !.curPresent = present,
                          !.presentLong = @ + (IF present THEN 1 ELSE 0)]

\* the ticket of the iteration the handler is in
Current(s) == s.tickets[s.idx]

\* the page check, had it taken a page of one ticket for the end of the source
OnPageUnlessSingle(s, body, table) ==
  IF ~body.json THEN Ended(s, InvalidJson(body))
  ELSE IF ~body.array \/ Len(body.items) <= 1 THEN Ended(s, FinalReport(s))
  ELSE NextTicket([s EXCEPT !.tickets = body.items, !.idx = 0], table)

\* from the parsed page body to the next await or return
OnPage(s, body, table) ==
  IF ~body.json THEN Ended(s, InvalidJson(body))
  ELSE IF ~body.array \/ Len(body.items) = 0 THEN Ended(s, FinalReport(s))
  ELSE NextTicket([s EXCEPT !.tickets = body.items, !.idx = 0], table)

\* the duplicate branch, had it counted the ticket as inserted
OnDuplicateInserted(s, table) ==
  AfterRecord([s EXCEPT !.inserted = @ + 1], table)

\* the duplicate branch, had it left the ticket out of processed
OnDuplicateUncounted(s, table) ==
  NextTicket([s EXCEPT !.skipped = @ + 1], table)

\* from exists.rowCount to the next await or return, when the row is there
OnDuplicate(s, table) ==
  AfterRecord([s EXCEPT !.skipped = @ + 1], table)

\* the handler, had it posted the ticket to /embed without awaiting the answer
OnAbsentNotAwaited(s, table) == AfterRecord([s EXCEPT !.posts = @ + 1], table)

\* from exists.rowCount to the next await, when no row is there: the ticket is
\* posted to /embed and the handler awaits the answer
OnAbsent(s, table) == [s EXCEPT !.pc = "embed", !.posts = @ + 1]

\* the /embed call, had its failure been thrown to the outer catch
OnEmbedResponseThrowing(s, r, table) ==
  IF r.status \in 200..299
  THEN AfterRecord([s EXCEPT !.inserted = @ + 1], table)
  ELSE Ended([s EXCEPT !.failed = @ + 1], ErrorResponse)

\* the loop, had it left a ticket whose /embed call failed out of processed
OnEmbedResponseSkippingFailed(s, r, table) ==
  IF r.status \in 200..299
  THEN AfterRecord([s EXCEPT !.inserted = @ + 1], table)
  ELSE NextTicket([s EXCEPT !.failed = @ + 1], table)

\* the loop, had it counted every answered /embed call as inserted
OnEmbedResponseAlwaysInserted(s, r, table) ==
  AfterRecord([s EXCEPT !.inserted = @ + 1,
                        !.failed = @ + (IF r.status \in 200..299 THEN 0 ELSE 1),
                        !.providerFailed =
                           @ + (IF r.kind = "error" /\ r.error # QueryMessage THEN 1 ELSE 0)],
              table)

\* if (embedRes.ok) inserted++, to the next await or return
OnEmbedResponse(s, r, table) ==
  AfterRecord([s EXCEPT !.inserted = @ + (IF r.status \in 200..299 THEN 1 ELSE 0),
                        !.failed = @ + (IF r.status \in 200..299 THEN 0 ELSE 1),
                        !.providerFailed =
                           @ + (IF r.kind = "error" /\ r.error # QueryMessage THEN 1 ELSE 0)],
              table)

\* "list", "object" or "text": what a page response's body is
BodyKind(body) == IF ~body.json THEN "text" ELSE IF ~body.array THEN "object" ELSE "list"

\* the invocation ended on an empty page of the source
Exhausted(s) ==
  s.pc = "end" /\ s.res.kind = "report" /\ ~s.res.note /\ s.last = "list"

\* the invocation was stopped by its limit, or ended on a failed page request
EndedEarly(s) ==
  /\ s.pc = "end"
  /\ \/ s.res.kind = "report" /\ s.res.note
     \/ s.res.kind \in {"error", "invalid_json"} /\ s.failure = "source"

----------------------------------------------------------------------------
(* POST /ingest-all-closed: actions. *)

\* a request arrives: the counters are set and page 1 is requested
IngestStart(i) ==
  /\ i \in slots
  /\ ing[i].pc \in {"idle", "end"}
  /\ runs < MaxRuns
  /\ \E q \in LimitInputs :
       ing' = [ing EXCEPT ![i] =
                 [IdleIng EXCEPT !.pc = "fetch", !.page = 1, !.limit = ParseLimit(q),
                    !.afterExhausted = Exhausted(ing[i]) /\ ~LimitSet(ing[i].limit),
                    !.afterClean = /\ Exhausted(ing[i])
                                   /\ ~LimitSet(ing[i].limit)
                                   /\ ing[i].failed = 0,
                    !.afterEarly = EndedEarly(ing[i]),
                    !.afterSameCap = /\ ing[i].pc = "end"
                                     /\ ing[i].res.kind = "report"
                                     /\ ing[i].res.note
                                     /\ ing[i].limit = ParseLimit(q)
                                     /\ ing[i].failed = 0,
                    !.before = StoredIds(rows),
                    !.startedAt = now]]
  /\ runs' = runs + 1
  /\ UNCHANGED <<population, pageSize, rows, nextId, now, reqs, slots, inputs, directs, faults>>

\* the source answers the page request
IngestFetch(i) ==
  /\ ing[i].pc = "fetch"
  /\ \/ /\ ing' = [ing EXCEPT ![i] =
                     OnPage([@ EXCEPT !.fetches = @ + 1, !.status = 200, !.last = "list"],
                            ListBody(PageOf(population, pageSize, ing[i].page)), rows)]
        /\ UNCHANGED faults
     \/ /\ faults < MaxFaults
        /\ \E r \in FailedResponses :
             ing' = [ing EXCEPT ![i] =
                       OnPage([@ EXCEPT !.fetches = @ + 1, !.status = r.status,
                                        !.last = BodyKind(r.body), !.failure = "source"],
                              r.body, rows)]
        /\ faults' = faults + 1
     \/ \* fetch or response.text() rejects: the outer catch answers
        /\ faults < MaxFaults
        /\ ing' = [ing EXCEPT ![i] =
                     Ended([@ EXCEPT !.fetches = @ + 1, !.status = 0, !.last = "rejected",
                                     !.failure = "source"],
                           ErrorResponse)]
        /\ faults' = faults + 1
  /\ UNCHANGED <<population, pageSize, rows, nextId, now, reqs, slots, inputs, runs, directs>>

\* the duplicate query answers
IngestExists(i) ==
  /\ ing[i].pc = "exists"
  /\ \/ /\ RowCount(rows, Current(ing[i]).id) > 0
        /\ ing' = [ing EXCEPT ![i] = OnDuplicate(@, rows)]
        /\ UNCHANGED <<reqs, faults>>
     \/ \* no row: the ticket is posted to /embed
        /\ RowCount(rows, Current(ing[i]).id) = 0
        /\ ing' = [ing EXCEPT ![i] = OnAbsent(@, rows)]
        /\ reqs' = [reqs EXCEPT ![i] = [NoReq EXCEPT !.pc = "posted",
                                          !.ticketNumber = Current(ing[i]).id,
                                          !.summary = ing[i].summary]]
        /\ UNCHANGED faults
     \/ \* no row, and the loopback fetch rejects: the outer catch answers
        /\ RowCount(rows, Current(ing[i]).id) = 0
        /\ faults < MaxFaults
        /\ ing' = [ing EXCEPT ![i] = Ended([@ EXCEPT !.failure = "loopback"], ErrorResponse)]
        /\ faults' = faults + 1
        /\ UNCHANGED reqs
     \/ \* pool.query rejects: the outer catch answers
        /\ faults < MaxFaults
        /\ ing' = [ing EXCEPT ![i] = Ended([@ EXCEPT !.failure = "store"], ErrorResponse)]
        /\ faults' = faults + 1
        /\ UNCHANGED reqs
  /\ UNCHANGED <<population, pageSize, rows, nextId, now, slots, inputs, runs, directs>>

\* /embed has answered the loopback call
IngestEmbedResponse(i) ==
  /\ ing[i].pc = "embed"
  /\ reqs[i].pc = "responded"
  /\ ing' = [ing EXCEPT ![i] = OnEmbedResponse(@, reqs[i].res, rows)]
  /\ reqs' = [reqs EXCEPT ![i] = NoReq]
  /\ UNCHANGED <<population, pageSize, rows, nextId, now, slots, inputs, runs, directs, faults>>

----------------------------------------------------------------------------
(* POST /embed. *)

\* res.status(400).json({error: "summary must be at least 10 characters", providedLength})
ValidationError(clean) ==
  [kind |-> "validation", status |-> 400, providedLength |-> Len(clean)]

\* res.json({ok: true, id, dims})
EmbedOk(id, dims) == [kind |-> "ok", status |-> 200, id |-> id, dims |-> dims]

\* the catch of /embed: res.status(500).json({error: err.message, details: err.stack})
EmbedError(message) == [kind |-> "error", status |-> 500, error |-> message]

Responded(r, res) == [r EXCEPT !.pc = "responded", !.res = res]

\* the handler, had it called the provider before looking at the length
OnEmbedRequestUnchecked(r) ==
  [r EXCEPT !.clean = CleanSummary(r.summary), !.pc = "provider", !.calls = @ + 1]

\* from the request body to the first await or return: trim, check the length,
\* call the provider
OnEmbedRequest(r) ==
  LET cleanSummary == CleanSummary(r.summary)
  IN  IF TooShort(cleanSummary)
      THEN Responded(r, ValidationError(cleanSummary))
      ELSE [r EXCEPT !.clean = cleanSummary, !.pc = "provider", !.calls = @ + 1]

\* the handler, had it called the provider once more on an answer without array
OnEmbeddingRetry(r, embedding) ==
  LET pgVector == ToPgVector(embedding)
  IN  IF pgVector.threw
      THEN [r EXCEPT !.pc = "provider", !.calls = @ + 1]
      ELSE [r EXCEPT !.pgVector = pgVector.value, !.dims = Len(embedding.items),
                     !.pc = "upsert", !.writes = @ + 1]

\* from the provider's answer to the next await: the pgvector literal, the upsert
OnEmbedding(r, embedding) ==
  LET pgVector == ToPgVector(embedding)
  IN  IF pgVector.threw
      THEN Responded(r, EmbedError(pgVector.message))
      ELSE [r EXCEPT !.pgVector = pgVector.value, !.dims = Len(embedding.items),
                     !.pc = "upsert", !.writes = @ + 1]

\* a client posts /embed
DirectEmbed ==
  /\ directs < MaxDirect
  /\ \E t \in 1..MaxId, s \in inputs :
       reqs' = [reqs EXCEPT ![DirectCaller(directs + 1)] =
                  [NoReq EXCEPT !.pc = "posted", !.ticketNumber = t, !.summary = s]]
  /\ directs' = directs + 1
  /\ UNCHANGED <<population, pageSize, rows, nextId, now, ing, slots, inputs, runs, faults>>

\* the handler starts on a posted request
EmbedRequest(c) ==
  /\ reqs[c].pc = "posted"
  /\ reqs' = [reqs EXCEPT ![c] = OnEmbedRequest(@)]
  /\ UNCHANGED <<population, pageSize, rows, nextId, now, ing, slots, inputs, runs, directs, faults>>

\* client.embeddings.create answers
EmbedProvider(c) ==
  /\ reqs[c].pc = "provider"
  /\ \/ /\ reqs' = [reqs EXCEPT ![c] = OnEmbedding(@, Embedding(reqs[c].clean))]
        /\ UNCHANGED faults
     \/ \* the answer carries no array
        /\ faults < MaxFaults
        /\ reqs' = [reqs EXCEPT ![c] = OnEmbedding(@, Malformed)]
        /\ faults' = faults + 1
     \/ \* the call rejects
        /\ faults < MaxFaults
        /\ reqs' = [reqs EXCEPT ![c] = Responded(@, EmbedError(ProviderMessage))]
        /\ faults' = faults + 1
  /\ UNCHANGED <<population, pageSize, rows, nextId, now, ing, slots, inputs, runs, directs>>

\* the upsert statement answers
EmbedUpsert(c) ==
  /\ reqs[c].pc = "upsert"
  /\ \/ LET r     == reqs[c]
            table == UpsertRows(rows, nextId, now + 1, r.ticketNumber, r.clean, r.pgVector)
        IN  /\ rows' = table
            /\ now' = now + 1
            /\ nextId' = IF Cardinality(table) > Cardinality(rows) THEN nextId + 1 ELSE nextId
            /\ reqs' = [reqs EXCEPT ![c] =
                          Responded([@ EXCEPT !.at = now + 1],
                                    EmbedOk(ReturningId(table, r.ticketNumber), r.dims))]
            /\ UNCHANGED faults
     \/ \* pool.query rejects
        /\ faults < MaxFaults
        /\ reqs' = [reqs EXCEPT ![c] = Responded(@, EmbedError(QueryMessage))]
        /\ faults' = faults + 1
        /\ UNCHANGED <<rows, nextId, now>>
  /\ UNCHANGED <<population, pageSize, ing, slots, inputs, runs, directs>>

----------------------------------------------------------------------------

Next ==
  \/ \E i \in BulkSlots : IngestStart(i)
  \/ \E i \in BulkSlots : IngestFetch(i)
  \/ \E i \in BulkSlots : IngestExists(i)
  \/ \E i \in BulkSlots : IngestEmbedResponse(i)
  \/ DirectEmbed
  \/ \E c \in Callers : EmbedRequest(c)
  \/ \E c \in Callers : EmbedProvider(c)
  \/ \E c \in Callers : EmbedUpsert(c)

Spec == Init /\ [][Next]_vars

----------------------------------------------------------------------------
(* /embed alone, over every summary of EmbedSummaries, on an empty table or on *)
(* one that holds ticket 1 from an earlier request.                          *)

EarlierRow ==
  [id |-> 1, ticket_number |-> 1, summary |-> Rep("x", MinLength),
   embedding |-> ToPgVector(Embedding(Rep("x", MinLength))).value, created_at |-> 1]

InitEmbed ==
  /\ population = <<>>
  /\ pageSize = 1
  /\ \/ rows = {} /\ nextId = 1 /\ now = 0
     \/ rows = {EarlierRow} /\ nextId = 2 /\ now = 1
  /\ ing = [i \in BulkSlots |-> IdleIng]
  /\ reqs = [c \in Callers |-> NoReq]
  /\ slots = {}
  /\ inputs = EmbedSummaries
  /\ runs = 0
  /\ directs = 0
  /\ faults = 0

NextEmbed ==
  \/ DirectEmbed
  \/ \E c \in Callers : EmbedRequest(c)
  \/ \E c \in Callers : EmbedProvider(c)
  \/ \E c \in Callers : EmbedUpsert(c)

SpecEmbed == InitEmbed /\ [][NextEmbed]_vars

----------------------------------------------------------------------------
(* Several clients post /embed while bulk ingestion runs, for the same or    *)
(* for different tickets, with different summaries.                          *)

\* client k posts /embed
WriterEmbed(k) ==
  /\ reqs[WriterCaller(k)].pc = "none"
  /\ \E t \in 1..MaxId, s \in inputs :
       reqs' = [reqs EXCEPT ![WriterCaller(k)] =
                  [NoReq EXCEPT !.pc = "posted", !.ticketNumber = t, !.summary = s]]
  /\ UNCHANGED <<population, pageSize, rows, nextId, now, ing, slots, inputs, runs, directs, faults>>

\* two summaries of different text and different vector
WriterSummaries ==
  {Rep("x", MinLength), Rep("x", 4) \o <<" ">> \o Rep("x", MinLength - 4)}

InitWriters ==
  /\ population \in SeqsUpTo(Tickets, OverlapTickets)
  /\ pageSize = 1
  /\ rows = {}
  /\ nextId = 1
  /\ now = 0
  /\ ing = [i \in BulkSlots |-> IdleIng]
  /\ reqs = [c \in Callers |-> NoReq]
  /\ slots = {1}
  /\ inputs = WriterSummaries
  /\ runs = 0
  /\ directs = 0
  /\ faults = 0

NextWriters ==
  \/ \E i \in BulkSlots : IngestStart(i)
  \/ \E i \in BulkSlots : IngestFetch(i)
  \/ \E i \in BulkSlots : IngestExists(i)
  \/ \E i \in BulkSlots : IngestEmbedResponse(i)
  \/ \E k \in 1..MaxWriters : WriterEmbed(k)
  \/ \E c \in Callers : EmbedRequest(c)
  \/ \E c \in Callers : EmbedProvider(c)
  \/ \E c \in Callers : EmbedUpsert(c)

SpecWriters == InitWriters /\ [][NextWriters]_vars

----------------------------------------------------------------------------
(* Every external call returns: the source, the store, the provider and the  *)
(* loopback call answer or fail, and a handler that can go on does.          *)

EveryCallReturns ==
  /\ \A i \in BulkSlots :
       /\ WF_vars(IngestFetch(i))
       /\ WF_vars(IngestExists(i))
       /\ WF_vars(IngestEmbedResponse(i))
  /\ \A c \in Callers :
       /\ WF_vars(EmbedRequest(c))
       /\ WF_vars(EmbedProvider(c))
       /\ WF_vars(EmbedUpsert(c))

\* bulk ingestion without direct requests beside it
InitLive ==
  /\ population \in SeqsUpTo(Tickets, MaxTickets)
  /\ pageSize \in 1..MaxPageSize
  /\ rows = {}
  /\ nextId = 1
  /\ now = 0
  /\ ing = [i \in BulkSlots |-> IdleIng]
  /\ reqs = [c \in Callers |-> NoReq]
  /\ slots = {1}
  /\ inputs = {}
  /\ runs = 0
  /\ directs = 0
  /\ faults = 0

NextLive ==
  \/ \E i \in BulkSlots : IngestStart(i)
  \/ \E i \in BulkSlots : IngestFetch(i)
  \/ \E i \in BulkSlots : IngestExists(i)
  \/ \E i \in BulkSlots : IngestEmbedResponse(i)
  \/ \E c \in Callers : EmbedRequest(c)
  \/ \E c \in Callers : EmbedProvider(c)
  \/ \E c \in Callers : EmbedUpsert(c)

SpecLive == InitLive /\ [][NextLive]_vars /\ EveryCallReturns

----------------------------------------------------------------------------
(* POST /match: the five nearest stored tickets. *)

\* LIMIT 5
MatchLimit == 5

\* an embedding column that is NULL
NullVector == <<"NULL">>

\* the number a token of a vector literal denotes
NumberOf(tok) == CHOOSE n \in 0..99 : ToString(n) = tok

RECURSIVE SplitComma(_)
SplitComma(toks) ==
  IF toks = <<>> THEN <<>>
  ELSE <<NumberOf(Head(toks))>>
         \o (IF Len(toks) = 1 THEN <<>> ELSE SplitComma(Tail(Tail(toks))))

\* $1::vector: the components of the literal "[a,b,...]"
ParseVector(lit) == SplitComma(SubSeq(lit, 2, Len(lit) - 1))

RECURSIVE Dot(_, _)
Dot(u, v) == IF u = <<>> THEN 0 ELSE Head(u) * Head(v) + Dot(Tail(u), Tail(v))

\* embedding <=> $1::vector, the cosine distance 1 - u.v / (|u| |v|), kept as
\* the integers u.v, u.u and v.v
CosineDistance(u, v) == [dot |-> Dot(u, v), uu |-> Dot(u, u), vv |-> Dot(v, v)]

\* d1 <= d2, for distances between vectors without negative components
DistanceLE(d1, d2) ==
  d1.dot * d1.dot * d2.uu * d2.vv >= d2.dot * d2.dot * d1.uu * d1.vv

\* SELECT ticket_number, summary, embedding <=> $1::vector AS distance
\* FROM ticket_embeddings WHERE embedding IS NOT NULL
Ranked(table, pgVector) ==
  {[ticket_number |-> r.ticket_number, summary |-> r.summary,
    distance |-> CosineDistance(ParseVector(r.embedding), ParseVector(pgVector))]
     : r \in {x \in table : x.embedding # NullVector}}

\* the ordering, had it been ORDER BY distance DESC
RECURSIVE OrderByDistanceDesc(_)
OrderByDistanceDesc(S) ==
  IF S = {} THEN {<<>>}
  ELSE UNION {{<<r>> \o rest : rest \in OrderByDistanceDesc(S \ {r})}
                : r \in {x \in S : \A y \in S : DistanceLE(y.distance, x.distance)}}

\* ORDER BY distance ASC: the orders the statement may answer the rows in; rows
\* at the same distance come in any order
RECURSIVE OrderByDistance(_)
OrderByDistance(S) ==
  IF S = {} THEN {<<>>}
  ELSE UNION {{<<r>> \o rest : rest \in OrderByDistance(S \ {r})}
                : r \in {x \in S : \A y \in S : DistanceLE(x.distance, y.distance)}}

\* LIMIT k
Limit(seq, k) == SubSeq(seq, 1, Min(k, Len(seq)))

\* the answers the search statement may give: matches.rows
SearchResults(table, pgVector) ==
  {Limit(o, MatchLimit) : o \in OrderByDistance(Ranked(table, pgVector))}

\* res.json({ok: true, count: matches.rows.length, results: matches.rows})
MatchOk(results) ==
  [kind |-> "matches", status |-> 200, count |-> Len(results), results |-> results]

\* the catch of /match: res.status(500).json({error: err.message, details: err.stack})
MatchError(message) == [kind |-> "error", status |-> 500, error |-> message]

\* from the request body to the first await or return: trim, check the length,
\* call the provider
OnMatchRequest(r) ==
  LET cleanSummary == CleanSummary(r.summary)
  IN  IF TooShort(cleanSummary)
      THEN Responded(r, ValidationError(cleanSummary))
      ELSE [r EXCEPT !.clean = cleanSummary, !.pc = "match_provider", !.calls = @ + 1]

\* from the provider's answer to the next await: the pgvector literal, the search
OnQueryEmbedding(r, queryEmbedding) ==
  LET pgVector == ToPgVector(queryEmbedding)
  IN  IF pgVector.threw
      THEN Responded(r, MatchError(pgVector.message))
      ELSE [r EXCEPT !.pgVector = pgVector.value, !.pc = "match_query"]

\* a client posts /match
MatchPost ==
  /\ directs < MaxDirect
  /\ \E s \in inputs :
       reqs' = [reqs EXCEPT ![MatchCaller] =
                  [NoReq EXCEPT !.pc = "match_posted", !.summary = s]]
  /\ directs' = directs + 1
  /\ UNCHANGED <<population, pageSize, rows, nextId, now, ing, slots, inputs, runs, faults>>

\* the handler starts on a posted request
MatchRequest(c) ==
  /\ reqs[c].pc = "match_posted"
  /\ reqs' = [reqs EXCEPT ![c] = OnMatchRequest(@)]
  /\ UNCHANGED <<population, pageSize, rows, nextId, now, ing, slots, inputs, runs, directs, faults>>

\* client.embeddings.create answers
MatchProvider(c) ==
  /\ reqs[c].pc = "match_provider"
  /\ \/ /\ reqs' = [reqs EXCEPT ![c] = OnQueryEmbedding(@, Embedding(reqs[c].clean))]
        /\ UNCHANGED faults
     \/ \* the answer carries no array
        /\ faults < MaxFaults
        /\ reqs' = [reqs EXCEPT ![c] = OnQueryEmbedding(@, Malformed)]
        /\ faults' = faults + 1
     \/ \* the call rejects
        /\ faults < MaxFaults
        /\ reqs' = [reqs EXCEPT ![c] = Responded(@, MatchError(ProviderMessage))]
        /\ faults' = faults + 1
  /\ UNCHANGED <<population, pageSize, rows, nextId, now, ing, slots, inputs, runs, directs>>

\* the search statement answers
MatchQuery(c) ==
  /\ reqs[c].pc = "match_query"
  /\ \/ /\ \E results \in SearchResults(rows, reqs[c].pgVector) :
             reqs' = [reqs EXCEPT ![c] = Responded(@, MatchOk(results))]
        /\ UNCHANGED faults
     \/ \* pool.query rejects
        /\ faults < MaxFaults
        /\ reqs' = [reqs EXCEPT ![c] = Responded(@, MatchError(QueryMessage))]
        /\ faults' = faults + 1
  /\ UNCHANGED <<population, pageSize, rows, nextId, now, ing, slots, inputs, runs, directs>>

\* a summary of n characters, w of them blanks between single letters
Spaced(n, w) ==
  [k \in 1..n |-> IF k <= 2 * w /\ k % 2 = 0 THEN " " ELSE "x"]

\* the summaries of the rows a table may hold when /match is asked
StoredSummaries ==
  <<Spaced(MinLength, 0), Spaced(MinLength + 1, 0), Spaced(MinLength, 1),
    Spaced(MinLength + 1, 1), Spaced(MinLength, 2), Spaced(MinLength + 2, 3),
    Spaced(MinLength, 4)>>

\* the row /embed writes for ticket k with the k-th of these summaries
StoredRow(k) ==
  [id |-> k, ticket_number |-> k, summary |-> StoredSummaries[k],
   embedding |-> ToPgVector(Embedding(StoredSummaries[k])).value, created_at |-> k]

\* a row whose embedding column was left NULL
NullRow ==
  [id |-> Len(StoredSummaries) + 1, ticket_number |-> Len(StoredSummaries) + 1,
   summary |-> Spaced(MinLength, 0), embedding |-> NullVector,
   created_at |-> Len(StoredSummaries) + 1]

\* summaries a /match request may carry
MatchSummaries ==
  {NoSummary, <<>>, <<" ">> \o Rep("x", MinLength - 1) \o <<" ">>,
   Spaced(MinLength, 0), <<" ">> \o Spaced(MinLength, 2), Spaced(MinLength + 2, 5)}

InitMatch ==
  /\ population = <<>>
  /\ pageSize = 1
  /\ rows \in SUBSET ({StoredRow(k) : k \in 1..Len(StoredSummaries)} \cup {NullRow})
  /\ nextId = Len(StoredSummaries) + 2
  /\ now = Len(StoredSummaries) + 1
  /\ ing = [i \in BulkSlots |-> IdleIng]
  /\ reqs = [c \in Callers |-> NoReq]
  /\ slots = {}
  /\ inputs = MatchSummaries
  /\ runs = 0
  /\ directs = 0
  /\ faults = 0

NextMatch ==
  \/ MatchPost
  \/ \E c \in Callers : MatchRequest(c)
  \/ \E c \in Callers : MatchProvider(c)
  \/ \E c \in Callers : MatchQuery(c)

SpecMatch == InitMatch /\ [][NextMatch]_vars

----------------------------------------------------------------------------
(* Two invocations of /ingest-all-closed that may overlap in time, one per   *)
(* slot, next to the direct /embed requests.                                 *)

InitOverlap ==
  /\ population \in SeqsUpTo(Tickets, OverlapTickets)
  /\ pageSize = 1
  /\ rows = {}
  /\ nextId = 1
  /\ now = 0
  /\ ing = [i \in BulkSlots |-> IdleIng]
  /\ reqs = [c \in Callers |-> NoReq]
  /\ slots = BulkSlots
  /\ inputs = ConcurrentSummaries
  /\ runs = 0
  /\ directs = 0
  /\ faults = 0

SpecOverlap == InitOverlap /\ [][Next]_vars

----------------------------------------------------------------------------
(* The whole service: /ingest-all-closed, /embed and /match requests in any   *)
(* order, on an empty table or on one that holds ticket 1 already.           *)

\* a client posts /match while the other handlers run
ServiceMatch ==
  /\ reqs[MatchCaller].pc = "none"
  /\ \E s \in inputs :
       reqs' = [reqs EXCEPT ![MatchCaller] =
                  [NoReq EXCEPT !.pc = "match_posted", !.summary = s]]
  /\ UNCHANGED <<population, pageSize, rows, nextId, now, ing, slots, inputs, runs, directs, faults>>

InitService ==
  /\ population \in SeqsUpTo(Tickets, OverlapTickets)
  /\ pageSize = 1
  /\ \/ rows = {} /\ nextId = 1 /\ now = 0
     \/ rows = {EarlierRow} /\ nextId = 2 /\ now = 1
  /\ ing = [i \in BulkSlots |-> IdleIng]
  /\ reqs = [c \in Callers |-> NoReq]
  /\ slots = {1}
  /\ inputs = ConcurrentSummaries
  /\ runs = 0
  /\ directs = 0
  /\ faults = 0

NextService ==
  \/ Next
  \/ ServiceMatch
  \/ \E c \in Callers : MatchRequest(c)
  \/ \E c \in Callers : MatchProvider(c)
  \/ \E c \in Callers : MatchQuery(c)

SpecService == InitService /\ [][NextService]_vars

----------------------------------------------------------------------------
(* Vocabulary of the properties, stated without the handlers' own operators. *)

\* positions of s that hold no white space
Inked(s) == {k \in 1..Len(s) : s[k] \notin WhiteSpace}

\* the length of s without its leading and trailing white space; 0 without a summary
TrimmedLength(s) ==
  IF s = NoSummary \/ Inked(s) = {} THEN 0
  ELSE (CHOOSE k \in Inked(s) : \A j \in Inked(s) : j <= k)
       - (CHOOSE k \in Inked(s) : \A j \in Inked(s) : k <= j) + 1

\* a ticket whose trimmed summary meets the minimum length
Qualifies(t) == TrimmedLength(t.summary) >= 10

\* how many of the first n tickets of the source qualify
QualifyingAmong(n) == Cardinality({k \in 1..n : Qualifies(population[k])})

\* a summary report was sent
Reported(s) == s.pc = "end" /\ s.res.kind = "report"

\* the report carries the early-stop note
Stopped(s) == Reported(s) /\ s.res.note

\* a bare error was sent
Failed(s) == s.pc = "end" /\ s.res.kind \in {"error", "invalid_json"}

\* the table holds at most one row per ticket number
OneRowPerTicket ==
  \A r1 \in rows, r2 \in rows : r1.ticket_number = r2.ticket_number => r1 = r2

----------------------------------------------------------------------------
(* C1 *)

\* 1 while the duplicate query for a ticket that was stored when reached is pending
PendingDuplicate(s) == IF s.pc = "exists" /\ s.curPresent THEN 1 ELSE 0

\* C1 as stated: a ticket whose id is stored when the loop reaches it is never
\* posted to /embed, so the provider is never called for it, and every such
\* ticket is counted in skipped.
C1_AsStated ==
  \A i \in BulkSlots :
    /\ (ing[i].pc = "embed" \/ reqs[i].pc # "none") => ~ing[i].curPresent
    /\ ~Failed(ing[i]) =>
         ing[i].skipped + PendingDuplicate(ing[i])
           >= ing[i].presentLong + ing[i].presentShort

\* C1, amended: a ticket whose id is stored when the loop reaches it is never
\* posted to /embed, so the provider is never called for it; it is counted in
\* skipped when its trimmed summary has the minimum length and the duplicate
\* query answers, and in shortSummaries, without any query, when the summary is
\* shorter.
C1_DuplicateBeforeProvider ==
  \A i \in BulkSlots :
    /\ (ing[i].pc = "embed" \/ reqs[i].pc # "none") => ~ing[i].curPresent
    /\ ~Failed(ing[i]) =>
         /\ ing[i].skipped + PendingDuplicate(ing[i]) >= ing[i].presentLong
         /\ ing[i].shortSummaries >= ing[i].presentShort
         /\ ing[i].queries + ing[i].shortSummaries
              = ing[i].processed + (IF ing[i].pc \in {"exists", "embed"} THEN 1 ELSE 0)

\* a run has reported after skipping a stored ticket as a duplicate and counting
\* another stored ticket as short
C1_Witness ==
  \E i \in BulkSlots :
    /\ Reported(ing[i])
    /\ ing[i].presentLong >= 1
    /\ ing[i].skipped = ing[i].presentLong
    /\ ing[i].presentShort >= 1

----------------------------------------------------------------------------
(* C2 *)

----------------------------------------------------------------------------
(* C3 *)

\* caller c's upsert statement is executed in this step
Writes(c) == reqs[c].pc = "upsert" /\ reqs'[c].pc = "responded" /\ reqs'[c].res.kind = "ok"

\* a write for a stored id replaces that row's summary, embedding and timestamp
\* and leaves every other row and the number of rows as they were; a write for
\* a new id adds one row; nothing else changes the table
WriteReplaces ==
  /\ \A c \in Callers :
       Writes(c) =>
         LET t == reqs[c].ticketNumber
         IN  /\ \E r \in rows' :
                  /\ r.ticket_number = t
                  /\ r.summary = reqs[c].clean
                  /\ r.embedding = reqs[c].pgVector
                  /\ r.created_at = now'
                  /\ \A old \in rows :
                       old.ticket_number = t => r.id = old.id /\ r.created_at > old.created_at
             /\ {r \in rows' : r.ticket_number # t} = {r \in rows : r.ticket_number # t}
             /\ Cardinality(rows') =
                  Cardinality(rows) + (IF t \in StoredIds(rows) THEN 0 ELSE 1)
  /\ (\A c \in Callers : ~Writes(c)) => rows' = rows

\* C3: in every reachable state the table holds at most one row per ticket
\* number, and a write for a stored id replaces that row's summary, embedding
\* and timestamp and never adds a second row.
C3_OneEntryPerTicket == []OneRowPerTicket /\ [][WriteReplaces]_vars

\* a row has been written twice: more writes than rows, by a direct request
\* and by bulk ingestion
C3_Witness ==
  /\ rows # {}
  /\ now > Cardinality(rows)
  /\ \E i \in BulkSlots : ing[i].inserted >= 1
  /\ \E k \in 1..MaxDirect : reqs[DirectCaller(k)].res.kind = "ok"

----------------------------------------------------------------------------
(* C4 *)

\* the handler of slot i, and the /embed handler serving it, can take no step
Returned(i) ==
  ~ENABLED (\/ IngestFetch(i) \/ IngestExists(i) \/ IngestEmbedResponse(i)
            \/ EmbedRequest(i) \/ EmbedProvider(i) \/ EmbedUpsert(i))

\* C4: with limit L > 0, processed never exceeds L; the moment it reaches L the
\* handler has returned the early-stop report: it has examined the first L
\* tickets and no other (it stands at ticket ((L-1) mod page size) + 1 of page
\* ((L-1) div page size) + 1), has fetched no page beyond that one, has queried
\* the store only for the qualifying tickets among those L, has no /embed call
\* open, and takes no further step; and a run over a source of at least L
\* tickets whose pages all arrived ends in no other way.
C4_CapEnforced ==
  \A i \in BulkSlots :
    LET s == ing[i]
        L == s.limit.val
    IN  LimitSet(s.limit) =>
          /\ s.processed <= L
          /\ s.processed = L => Stopped(s)
          /\ Stopped(s) =>
               /\ s.processed = L
               /\ s.page = ((L - 1) \div pageSize) + 1
               /\ s.idx = ((L - 1) % pageSize) + 1
               /\ s.fetches = s.page
               /\ s.queries = QualifyingAmong(L)
               /\ s.posts = s.inserted + s.failed
               /\ reqs[i].pc = "none"
               /\ Returned(i)
          /\ (Reported(s) /\ s.last = "list" /\ Len(population) >= L) => Stopped(s)

\* a run has stopped in the middle of a page, with tickets of the page unexamined
C4_Witness ==
  \E i \in BulkSlots :
    /\ Stopped(ing[i])
    /\ ing[i].idx < Len(ing[i].tickets)
    /\ ing[i].processed < Len(population)

----------------------------------------------------------------------------
(* C5 *)

\* C5: over a source of two non-empty pages followed by an empty one, an
\* unbounded run that ends on the empty page has sent exactly three page
\* requests, for pages 1, 2 and 3, has examined every ticket of the two pages,
\* and reports each of them once: the short ones in shortSummaries, the
\* qualifying ones in inserted or skipped unless their /embed call failed.
C5_ThreeFetches ==
  \A i \in BulkSlots :
    LET s == ing[i]
        n == Len(population)
    IN  (Exhausted(s) /\ ~LimitSet(s.limit) /\ pageSize < n /\ n <= 2 * pageSize) =>
          /\ s.fetches = 3
          /\ s.page = 3
          /\ s.processed = n
          /\ s.res.shortSummaries = n - QualifyingAmong(n)
          /\ s.res.inserted + s.res.skipped + s.failed = QualifyingAmong(n)

\* an unbounded run over two pages has ended on the third, empty page
C5_Witness ==
  \E i \in BulkSlots :
    /\ Exhausted(ing[i]) /\ ~LimitSet(ing[i].limit)
    /\ pageSize < Len(population) /\ Len(population) <= 2 * pageSize
    /\ ing[i].fetches = 3
    /\ ing[i].res.inserted >= 1

----------------------------------------------------------------------------
(* C6 *)

\* C6 as stated: when the latest page response is no JSON, or JSON that is no
\* list, the run has ended with the error result that carries the raw payload.
\* The handler takes JSON that is no list for the end of the source and sends
\* its final report.
C6_AsStated ==
  \A i \in BulkSlots :
    ing[i].last \in {"text", "object"} =>
      /\ Failed(ing[i])
      /\ ing[i].res.kind = "invalid_json"
      /\ ing[i].res.raw = (IF ing[i].last = "text" THEN TextBody ELSE ObjectBody)

----------------------------------------------------------------------------
(* C7 *)

\* the ids of the qualifying tickets of the source
QualifyingIds ==
  {population[k].id : k \in {j \in 1..Len(population) : Qualifies(population[j])}}

\* someone other than the /embed call of slot i has written ticket t
OtherWriter(i, t) ==
  \/ \E k \in 1..MaxDirect :
       reqs[DirectCaller(k)].ticketNumber = t /\ reqs[DirectCaller(k)].res.kind = "ok"
  \/ \E j \in slots \ {i} : ing[j].posts > 0

\* C7: a failed /embed call of a run (the provider failed for that ticket) does
\* not end the run: no run ends with a bare error unless a page request, the
\* duplicate query or the loopback call itself failed.  The failed call has
\* written nothing, so the ticket has no row unless another request wrote it.
\* The ticket is not counted in inserted: inserted counts exactly the /embed
\* calls that answered ok.  A run that ends on the empty page has counted every
\* qualifying ticket but the failed ones in inserted or skipped, and at most as
\* many qualifying ids lack a row as calls failed.
C7_PartialFailure ==
  \A i \in BulkSlots :
    LET s == ing[i]
    IN  /\ Failed(s) => s.failure # "none"
        /\ (reqs[i].pc = "responded" /\ reqs[i].res.kind = "error"
              /\ ~OtherWriter(i, reqs[i].ticketNumber)) =>
             reqs[i].ticketNumber \notin StoredIds(rows)
        /\ s.inserted = s.posts - s.failed - (IF s.pc = "embed" THEN 1 ELSE 0)
        /\ (Exhausted(s) /\ ~LimitSet(s.limit)) =>
             /\ s.res.inserted + s.res.skipped
                  = QualifyingAmong(Len(population)) - s.failed
             /\ Cardinality(QualifyingIds \ StoredIds(rows)) <= s.failed

\* a run in which the provider failed for exactly one ticket has ended on the
\* empty page with another ticket inserted
C7_Witness ==
  \E i \in BulkSlots :
    /\ Exhausted(ing[i])
    /\ ing[i].providerFailed = 1 /\ ing[i].failed = 1
    /\ ing[i].res.inserted >= 1
    /\ Cardinality(QualifyingIds \ StoredIds(rows)) = 1

----------------------------------------------------------------------------
(* C8 *)

\* C8 as stated: a run in which the store's duplicate query failed for one
\* ticket does not end with a bare error.  The query is awaited outside any
\* per-ticket try, so its failure reaches the outer catch.
C8_AsStated ==
  \A i \in BulkSlots : ing[i].failure = "store" => ~Failed(ing[i])

----------------------------------------------------------------------------
(* C9 *)

\* C9 as stated: after a page request that was rejected, or answered with an
\* authentication failure (status 401), the run has ended with an error result.
\* The handler never reads the status: a 401 whose body is a JSON error object
\* ends the run with the final report.
C9_AsStated ==
  \A i \in BulkSlots :
    (ing[i].last = "rejected" \/ ing[i].status = 401) => Failed(ing[i])

----------------------------------------------------------------------------
(* C10 *)

\* C10: /embed accepts a summary whose trimmed length is 10 or more, and
\* rejects one whose trimmed length is 9 or less with the validation error
\* whose providedLength is that trimmed length, 0 without a summary.
C10_Threshold ==
  \A c \in Callers :
    reqs[c].pc \notin {"none", "posted"} =>
      LET n == TrimmedLength(reqs[c].summary)
      IN  /\ n >= 10 => reqs[c].res.kind # "validation"
          /\ n <= 9 => /\ reqs[c].pc = "responded"
                       /\ reqs[c].res.kind = "validation"
                       /\ reqs[c].res.status = 400
                       /\ reqs[c].res.providedLength = n

\* a summary of 9 characters between two white-space characters has been
\* rejected with providedLength 9
C10_Witness ==
  \E c \in Callers :
    /\ reqs[c].pc = "responded"
    /\ reqs[c].res.kind = "validation"
    /\ reqs[c].res.providedLength = 9
    /\ Len(reqs[c].summary) = 11

----------------------------------------------------------------------------
(* C11 *)

RECURSIVE SumOver(_, _)
\* the sum of f[x] over the x of S
SumOver(S, f) ==
  IF S = {} THEN 0
  ELSE LET x == CHOOSE y \in S : TRUE IN f[x] + SumOver(S \ {x}, f)

\* provider calls made, and statements sent to the store, by the open requests
ProviderCallCount == SumOver(Callers, [c \in Callers |-> reqs[c].calls])

StoreWriteCount == SumOver(Callers, [c \in Callers |-> reqs[c].writes])

\* /embed answers caller c with the validation error in this step
Rejects(c) ==
  /\ reqs[c].pc = "posted"
  /\ reqs'[c].pc = "responded"
  /\ reqs'[c].res.kind = "validation"

\* the step that rejects a request leaves the table, its id sequence and clock,
\* and the numbers of provider calls and of store statements as they were
RejectionFrame ==
  \A c \in Callers :
    Rejects(c) =>
      /\ rows' = rows /\ nextId' = nextId /\ now' = now
      /\ ProviderCallCount' = ProviderCallCount
      /\ StoreWriteCount' = StoreWriteCount

\* a request whose trimmed summary is shorter than 10 is, once handled,
\* answered with the validation error, having called the provider and the
\* store not once
RejectedUntouched ==
  \A c \in Callers :
    (reqs[c].pc \notin {"none", "posted"} /\ TrimmedLength(reqs[c].summary) < 10) =>
      /\ reqs[c].pc = "responded"
      /\ reqs[c].res.kind = "validation"
      /\ reqs[c].calls = 0
      /\ reqs[c].writes = 0

\* C11: when /embed rejects a summary for being shorter than the minimum
\* length, it has made no provider call and sent no statement to the store:
\* the rejecting step leaves the table and the provider call count unchanged.
C11_RejectionHasNoEffect == []RejectedUntouched /\ [][RejectionFrame]_vars

\* a request for the ticket the table already holds has been rejected, and the
\* table still holds the earlier row alone
C11_Witness ==
  \E c \in Callers :
    /\ reqs[c].pc = "responded"
    /\ reqs[c].res.kind = "validation"
    /\ reqs[c].res.providedLength = 9
    /\ reqs[c].ticketNumber = 1
    /\ rows = {EarlierRow}

----------------------------------------------------------------------------
(* C12 *)

\* the invocation was given a limit above 0
Capped(s) == ~s.limit.nan /\ s.limit.val > 0

\* the invocation ended when the source answered a page request with the empty list
EndedOnEmptyPage(s) ==
  /\ s.pc = "end"
  /\ s.last = "list"
  /\ s.idx = 0
  /\ PageOf(population, pageSize, s.page) = <<>>

----------------------------------------------------------------------------
(* C13 *)

\* the /embed call that slot i posted has called the provider for ticket t
BulkCalled(i, t) == reqs[i].ticketNumber = t /\ reqs[i].calls >= 1

\* C13 as stated: over invocations that may overlap, the provider is called at
\* most once per ticket id by bulk ingestion, so no two /embed calls posted by
\* bulk ingestion have called the provider for the same ticket.  Two
\* invocations that both miss the row in their duplicate query both post the
\* ticket.
C13_AsStated ==
  \A t \in 1..MaxId :
    \A i \in BulkSlots, j \in BulkSlots :
      (BulkCalled(i, t) /\ BulkCalled(j, t)) => i = j

----------------------------------------------------------------------------
(* C14 *)

\* the positions of the source at which a ticket id first occurs with a
\* qualifying summary
FirstQualifying ==
  {k \in 1..Len(population) :
     /\ Qualifies(population[k])
     /\ \A j \in 1..(k - 1) :
          ~(Qualifies(population[j]) /\ population[j].id = population[k].id)}

\* what one uninterrupted complete run over the source leaves in an empty
\* table: per ticket id its first qualifying summary, trimmed, and the vector
\* of that summary
CompleteRunEntries ==
  {[ticket_number |-> population[k].id,
    summary       |-> Trim(population[k].summary),
    embedding     |-> ToPgVector(Embedding(Trim(population[k].summary))).value]
     : k \in FirstQualifying}

\* the source lists no ticket id with two different qualifying summaries
OneSummaryPerId ==
  \A j \in 1..Len(population), k \in 1..Len(population) :
    (Qualifies(population[j]) /\ Qualifies(population[k])
       /\ population[j].id = population[k].id) =>
      Trim(population[j].summary) = Trim(population[k].summary)

\* the rows of the table without surrogate id and timestamp
Entries(table) ==
  {[ticket_number |-> r.ticket_number, summary |-> r.summary, embedding |-> r.embedding]
     : r \in table}

\* slot i has completed an unbounded run, none of whose /embed calls failed,
\* right after a run that ended early, and no direct /embed request was made
Resumed(i) ==
  /\ ing[i].afterEarly
  /\ Exhausted(ing[i])
  /\ ~Capped(ing[i])
  /\ ing[i].failed = 0
  /\ directs = 0

----------------------------------------------------------------------------
(* C15 *)

\* the rows of the table that have a vector
WithVector == {r \in rows : r.embedding # NullVector}

\* the distance of a stored row to the query vector of request m
DistanceTo(m, r) == CosineDistance(ParseVector(r.embedding), ParseVector(m.pgVector))

\* /match has answered request m with a list of entries: at most 5; each the
\* ticket number and summary of a stored row with its distance to the query
\* vector, no row twice; in ascending distance; as many as there are rows, up to
\* 5; and no row left out is nearer than one listed
NearestAnswered(m) ==
  LET res == m.res.results
  IN  /\ Len(res) <= 5
      /\ m.res.count = Len(res)
      /\ Len(res) = Min(5, Cardinality(WithVector))
      /\ \A a \in 1..Len(res) :
           \E r \in WithVector :
             /\ r.ticket_number = res[a].ticket_number
             /\ r.summary = res[a].summary
             /\ res[a].distance = DistanceTo(m, r)
      /\ \A a \in 1..Len(res), b \in 1..Len(res) :
           /\ a # b => res[a].ticket_number # res[b].ticket_number
           /\ a < b => DistanceLE(res[a].distance, res[b].distance)
      /\ \A r \in WithVector :
           (\A a \in 1..Len(res) : res[a].ticket_number # r.ticket_number) =>
             \A a \in 1..Len(res) : DistanceLE(res[a].distance, DistanceTo(m, r))

\* what /match has done for its request, in every state
MatchAnswers ==
  LET m == reqs[MatchCaller]
  IN  /\ (m.pc = "responded" /\ m.res.kind = "matches") => NearestAnswered(m)
      /\ (m.pc \notin {"none", "match_posted"} /\ TrimmedLength(m.summary) < 10) =>
           /\ m.pc = "responded"
           /\ m.res.kind = "validation"
           /\ m.calls = 0
      /\ m.writes = 0

\* no step changes the table, its id sequence or its clock
StoreUntouched == rows' = rows /\ nextId' = nextId /\ now' = now

\* C15: /match answers at most 5 entries, in ascending distance to the query
\* vector, the nearest stored rows; it rejects a summary whose trimmed length is
\* below 10 without calling the provider; and it never changes the table.
C15_NearestFive == []MatchAnswers /\ [][StoreUntouched]_vars

\* /match has answered 5 entries out of more stored rows, the first nearer
\* than the last
C15_Witness ==
  LET m == reqs[MatchCaller]
  IN  /\ m.pc = "responded" /\ m.res.kind = "matches"
      /\ Len(m.res.results) = 5
      /\ Cardinality(WithVector) > 5
      /\ ~DistanceLE(m.res.results[5].distance, m.res.results[1].distance)

----------------------------------------------------------------------------
(* C16 *)

\* 1 while a ticket is being handled: its duplicate query or /embed call is
\* open, or failed and ended the run
InFlight(s) ==
  IF s.pc \in {"exists", "embed"} \/ (s.pc = "end" /\ s.failure \in {"store", "loopback"})
  THEN 1 ELSE 0

\* how many tickets of the source the loop of the invocation has come to
Reached(s) == s.processed + InFlight(s)

\* of the tickets the loop has come to, the short ones are counted in
\* shortSummaries and the others, and no others, were looked up in the table;
\* no ticket was posted to /embed without having been looked up
ShortCounted ==
  \A i \in BulkSlots :
    LET s == ing[i]
    IN  /\ Reached(s) <= Len(population)
        /\ s.shortSummaries = Reached(s) - QualifyingAmong(Reached(s))
        /\ s.queries = QualifyingAmong(Reached(s))
        /\ s.posts <= s.queries

\* a step that counts a short ticket changes no row, posts nothing to /embed
\* and calls the provider for nothing
ShortFrame ==
  \A i \in BulkSlots :
    ing'[i].shortSummaries > ing[i].shortSummaries =>
      /\ rows' = rows /\ nextId' = nextId /\ now' = now
      /\ ing'[i].posts = ing[i].posts
      /\ \A c \in Callers :
           /\ reqs'[c].calls <= reqs[c].calls
           /\ reqs'[c].writes <= reqs[c].writes
           /\ reqs'[c] # reqs[c] => reqs'[c] = NoReq

\* C16: a ticket whose trimmed summary is empty or shorter than 10 is counted
\* in shortSummaries and causes no duplicate query, no /embed call, no provider
\* call and no write: the table is unchanged by it.
C16_ShortUntouched == []ShortCounted /\ [][ShortFrame]_vars

\* a run over MaxTickets short tickets, one of them 9 characters between
\* blanks, has reported them all short without a query, and the table is empty
C16_Witness ==
  \E i \in BulkSlots :
    /\ Reported(ing[i])
    /\ ing[i].res.shortSummaries = MaxTickets
    /\ ing[i].queries = 0 /\ ing[i].posts = 0
    /\ \E k \in 1..Len(population) : TrimmedLength(population[k].summary) = 9
    /\ rows = {}

----------------------------------------------------------------------------
(* C17 *)

\* every /embed request has called the provider at most once and sent at most
\* one statement, the statement only after the provider answered; a request
\* answered ok has done both and its row is in the table under the id answered;
\* a request answered with an error has not been answered ok as well
OneCallOneWrite ==
  \A c \in Callers :
    LET r == reqs[c]
    IN  /\ r.calls <= 1 /\ r.writes <= r.calls
        /\ r.pc = "provider" => (r.calls = 1 /\ r.writes = 0)
        /\ r.pc = "upsert" => (r.calls = 1 /\ r.writes = 1)
        /\ (r.pc = "responded" /\ r.res.kind = "ok") =>
             /\ r.calls = 1 /\ r.writes = 1
             /\ r.res.dims = Len(ParseVector(r.pgVector))
             /\ \E row \in rows :
                  row.id = r.res.id /\ row.ticket_number = r.ticketNumber

\* the table changes only in the step in which the statement of a request
\* whose provider call succeeded completes, and that step sends the ok; a step
\* in which the provider fails, or the statement fails, changes no row and
\* sends the error; a request once answered takes no further step
WriteAfterProvider ==
  /\ rows' # rows => \E c \in Callers : Writes(c) /\ reqs[c].calls = 1
  /\ \A c \in Callers :
       /\ (reqs[c].pc = "provider" /\ reqs'[c].pc = "responded") =>
            (rows' = rows /\ reqs'[c].res.kind = "error" /\ reqs'[c].writes = 0)
       /\ (reqs[c].pc = "upsert" /\ reqs'[c].res.kind = "error") => rows' = rows
       /\ (reqs'[c].pc = "responded" /\ reqs'[c].res.kind = "ok" /\ reqs'[c] # reqs[c]) =>
            /\ reqs[c].pc = "upsert"
            /\ \E row \in rows' :
                 /\ row.ticket_number = reqs[c].ticketNumber
                 /\ row.summary = reqs[c].clean
                 /\ row.embedding = reqs[c].pgVector
                 /\ row.id = reqs'[c].res.id
       /\ reqs[c].pc = "responded" => reqs'[c] \in {reqs[c], NoReq}

\* C17: one /embed request makes at most one provider call and at most one
\* store write, without retry; the write is sent only after the provider call
\* succeeded, so a provider failure leaves the table unchanged; and the ok
\* response with id and dims is sent only when the upsert has completed.
C17_OneCallOneWrite == []OneCallOneWrite /\ [][WriteAfterProvider]_vars

\* a request for the stored ticket was answered with an error after its one
\* provider call, without a write, and the earlier row is as it was
C17_Witness ==
  \E c \in Callers :
    /\ reqs[c].pc = "responded" /\ reqs[c].res.kind = "error"
    /\ reqs[c].calls = 1 /\ reqs[c].writes = 0
    /\ reqs[c].ticketNumber = 1
    /\ rows = {EarlierRow}

----------------------------------------------------------------------------
(* C18 *)

\* the invocation is under way
Running(s) == s.pc \in {"fetch", "exists", "embed"}

\* the pages requested so far are 1, 2, ..., page, each once: as many were
\* answered as the page counter says, but for the request that is open.  While
\* the request for a page is open, every ticket of the pages before has been
\* classified; while a ticket is being handled, it is the ticket of the source
\* that follows the classified ones, on the page last fetched.
InPageOrder ==
  \A i \in BulkSlots :
    LET s == ing[i]
        n == Len(population)
    IN  Running(s) =>
          /\ s.page >= 1
          /\ s.fetches = s.page - (IF s.pc = "fetch" THEN 1 ELSE 0)
          /\ s.processed = s.shortSummaries + s.skipped + s.inserted + s.failed
          /\ s.pc = "fetch" =>
               /\ s.idx = 0
               /\ s.processed = Min((s.page - 1) * pageSize, n)
          /\ s.pc \in {"exists", "embed"} =>
               /\ s.idx \in 1..Len(s.tickets)
               /\ s.tickets = PageOf(population, pageSize, s.page)
               /\ s.processed + 1 = (s.page - 1) * pageSize + s.idx
               /\ Current(s) = population[s.processed + 1]

\* a step of a running invocation keeps the page or moves to the next one,
\* and moves on only when every ticket of the page has been classified; on
\* the same page it never goes back to an earlier ticket
PageSteps ==
  \A i \in BulkSlots :
    (Running(ing[i]) /\ ing'[i] # ing[i]) =>
      /\ ing'[i].page \in {ing[i].page, ing[i].page + 1}
      /\ ing'[i].processed >= ing[i].processed
      /\ ing'[i].page = ing[i].page + 1 =>
           /\ ing'[i].pc = "fetch"
           /\ ing'[i].processed = Min(ing[i].page * pageSize, Len(population))
      /\ (ing'[i].page = ing[i].page /\ ing[i].pc # "fetch") => ing'[i].idx >= ing[i].idx

\* C18: within one invocation the pages are requested in the order 1, 2, 3,
\* ..., none skipped and none twice; page k+1 is requested only after every
\* ticket of page k has been classified; and the tickets of a page are handled
\* in the order in which the source listed them.
C18_PageOrder == []InPageOrder /\ [][PageSteps]_vars

\* the second ticket of a source of two different tickets is being handled on
\* page 2, after the first was classified on page 1
C18_Witness ==
  \E i \in BulkSlots :
    /\ ing[i].pc \in {"exists", "embed"}
    /\ pageSize = 1
    /\ ing[i].page = 2
    /\ ing[i].processed = 1
    /\ Len(population) = 2 /\ population[1] # population[2]

----------------------------------------------------------------------------
(* C19 *)

\* the /embed call that slot i posted is open: posted and not yet taken back
\* by the handler
CallOpen(i) == reqs[i].pc # "none"

\* duplicate queries of the invocation that have not answered
OpenQueries(s) ==
  s.queries - s.skipped - s.posts
    - (IF s.pc = "end" /\ s.failure \in {"store", "loopback"} THEN 1 ELSE 0)

\* /embed calls of the invocation that have not answered
OpenCalls(s) == s.posts - s.inserted - s.failed

\* C19: an invocation has at most one ticket in hand: at most one duplicate
\* query or one /embed call is open, never both; the open query or call is for
\* the ticket the loop stands at; the /embed call has at most one provider call
\* and one statement; and while the duplicate query of a ticket is open nothing
\* of an earlier ticket is: every earlier ticket has been counted.
C19_OneInFlight ==
  \A i \in BulkSlots :
    LET s == ing[i]
    IN  /\ OpenQueries(s) \in {0, 1} /\ OpenCalls(s) \in {0, 1}
        /\ OpenQueries(s) + OpenCalls(s) <= 1
        /\ OpenQueries(s) = 1 <=> s.pc = "exists"
        /\ OpenCalls(s) = 1 <=> s.pc = "embed"
        /\ CallOpen(i) <=> s.pc = "embed"
        /\ CallOpen(i) =>
             /\ reqs[i].ticketNumber = Current(s).id
             /\ reqs[i].calls <= 1 /\ reqs[i].writes <= 1
        /\ s.pc = "exists" =>
             s.processed = s.shortSummaries + s.skipped + s.inserted + s.failed

\* the duplicate query of the second ticket is open after the /embed call of
\* the first has answered and the ticket was counted inserted
C19_Witness ==
  \E i \in BulkSlots :
    /\ ing[i].pc = "exists"
    /\ ing[i].processed = 1 /\ ing[i].inserted = 1
    /\ ~CallOpen(i)

----------------------------------------------------------------------------
(* C20 *)

\* C20 as stated, its second half: an unbounded run sends its final report
\* only when the source has answered a page request with the empty list.  The
\* handler also sends it when a page response is JSON but no list.
C20_AsStated ==
  \A i \in BulkSlots :
    (Reported(ing[i]) /\ ~Capped(ing[i])) => EndedOnEmptyPage(ing[i])

\* the first half of C20, which holds when every call returns: an invocation
\* under way ends with a report or an error
C20_Terminates ==
  \A i \in BulkSlots : Running(ing[i]) ~> (Reported(ing[i]) \/ Failed(ing[i]))

----------------------------------------------------------------------------
(* C21 *)

\* how many tickets of the source the loop has gone through, by the page and
\* the place on the page at which the invocation stands
Examined(s) ==
  IF s.tickets = <<>>
  THEN Min((s.page - 1) * pageSize, Len(population))
  ELSE (s.page - 1) * pageSize + s.idx - InFlight(s)

\* the counters of the invocation, in every state
CountersAgree ==
  \A i \in BulkSlots :
    LET s == ing[i]
    IN  s.pc # "idle" =>
          /\ s.processed = Examined(s)
          /\ s.inserted + s.skipped + s.shortSummaries <= s.processed
          /\ s.processed - (s.inserted + s.skipped + s.shortSummaries) = s.failed
          /\ Capped(s) => s.processed <= s.limit.val

\* a step of a running invocation lowers no counter, and counts at most one
\* ticket of those that were looked up: in inserted, in skipped, or as failed
CountersStep ==
  \A i \in BulkSlots :
    Running(ing[i]) =>
      /\ ing'[i].processed >= ing[i].processed
      /\ ing'[i].inserted >= ing[i].inserted
      /\ ing'[i].skipped >= ing[i].skipped
      /\ ing'[i].shortSummaries >= ing[i].shortSummaries
      /\ ing'[i].failed >= ing[i].failed
      /\ (ing'[i].inserted - ing[i].inserted) + (ing'[i].skipped - ing[i].skipped)
            + (ing'[i].failed - ing[i].failed) <= 1
      /\ ing'[i].processed - ing[i].processed
           = (ing'[i].inserted - ing[i].inserted) + (ing'[i].skipped - ing[i].skipped)
               + (ing'[i].shortSummaries - ing[i].shortSummaries)
               + (ing'[i].failed - ing[i].failed)

\* C21: at every point of a run processed is the number of tickets gone
\* through; each of them was counted in at most one of inserted, skipped and
\* shortSummaries, so their sum is at most processed, and the difference is the
\* number of tickets whose /embed call failed; with a limit above 0 processed
\* never exceeds the limit.
C21_Counters == []CountersAgree /\ [][CountersStep]_vars

\* a run has reported after going through a short ticket and a ticket whose
\* /embed call failed
C21_Witness ==
  \E i \in BulkSlots :
    /\ Reported(ing[i])
    /\ ing[i].processed = 2
    /\ ing[i].res.shortSummaries = 1
    /\ ing[i].failed = 1
    /\ ing[i].res.inserted + ing[i].res.skipped = 0

----------------------------------------------------------------------------
(* C22 *)

\* the vector of the row is the vector of the row's summary
Coherent(r) == r.embedding = ToPgVector(Embedding(r.summary)).value

\* the statement of request c was committed and answered
Committed(c) == reqs[c].pc = "responded" /\ reqs[c].res.kind = "ok"

\* one row per ticket number, each with the vector of its own summary; the row
\* of a ticket is no older than any committed write for the ticket, and when
\* it dates from the commit of a request it holds that request's summary and
\* vector
LastWriteStands ==
  /\ OneRowPerTicket
  /\ \A r \in rows : Coherent(r)
  /\ \A c \in Callers :
       Committed(c) =>
         \E r \in rows :
           /\ r.ticket_number = reqs[c].ticketNumber
           /\ r.created_at >= reqs[c].at
           /\ r.created_at = reqs[c].at =>
                (r.summary = reqs[c].clean /\ r.embedding = reqs[c].pgVector)

\* the step that commits a write leaves one row for the ticket, holding the
\* summary and the vector of that write and the latest timestamp of the table
LastWriteWins ==
  \A c \in Callers :
    Writes(c) =>
      /\ Cardinality({r \in rows' : r.ticket_number = reqs[c].ticketNumber}) = 1
      /\ \E r \in rows' :
           /\ r.ticket_number = reqs[c].ticketNumber
           /\ r.summary = reqs[c].clean
           /\ r.embedding = reqs[c].pgVector
           /\ r.created_at = now'
           /\ reqs'[c].at = now'
           /\ \A other \in rows' : other # r => other.created_at < now'

\* C22: when a direct /embed request and the /embed call of bulk ingestion, or
\* two direct requests, write the same ticket, whatever the interleaving the
\* table holds one row for the ticket, whose summary and vector both come from
\* the write committed last; never two rows, never the summary of one write
\* with the vector of the other.
C22_LastWriteWins == []LastWriteStands /\ [][LastWriteWins]_vars

\* bulk ingestion and two clients have written the same ticket, bulk
\* ingestion first and client 2 last, the clients with different summaries:
\* the row holds the summary and the vector of client 2
C22_Witness ==
  \E r \in rows :
    /\ Committed(1) /\ Committed(WriterCaller(1)) /\ Committed(WriterCaller(2))
    /\ reqs[1].ticketNumber = r.ticket_number
    /\ reqs[WriterCaller(1)].ticketNumber = r.ticket_number
    /\ reqs[WriterCaller(2)].ticketNumber = r.ticket_number
    /\ reqs[WriterCaller(1)].clean # reqs[WriterCaller(2)].clean
    /\ reqs[1].at < reqs[WriterCaller(1)].at
    /\ reqs[WriterCaller(1)].at < reqs[WriterCaller(2)].at
    /\ r.created_at = reqs[WriterCaller(2)].at
    /\ r.summary = reqs[WriterCaller(2)].clean
    /\ ing[1].pc = "embed"

----------------------------------------------------------------------------
(* C23 *)

\* no step removes a ticket number from the table or lowers the number of
\* rows, and a row is changed only by the step that commits a write for its
\* own ticket number; a step that commits no write leaves the table alone
NeverDeleted ==
  /\ StoredIds(rows) \subseteq StoredIds(rows')
  /\ Cardinality(rows') >= Cardinality(rows)
  /\ \A r \in rows :
       r \notin rows' =>
         \E c \in Callers : Writes(c) /\ reqs[c].ticketNumber = r.ticket_number
  /\ rows' # rows => \E c \in Callers : Writes(c)

\* C23: the set of ticket ids in the store never shrinks: no step of /embed,
\* /match or /ingest-all-closed, in any interleaving, deletes an entry, and an
\* entry changes only through an upsert for its own id.
C23_NeverDeleted == [][NeverDeleted]_vars

\* the table held ticket 1 from the start; since then a bulk run has ended,
\* /match has answered with rows and a direct /embed request has written: the
\* row of ticket 1 was replaced by a later write and another ticket was added
C23_Witness ==
  /\ reqs[MatchCaller].pc = "responded"
  /\ reqs[MatchCaller].res.kind = "matches" /\ reqs[MatchCaller].res.count >= 1
  /\ Committed(DirectCaller(1))
  /\ ing[1].pc = "end"
  /\ Cardinality(rows) = 2
  /\ \E r \in rows : r.ticket_number = 1 /\ r.id = 1 /\ r.created_at > 1

----------------------------------------------------------------------------
(* C24 *)

\* the first tickets of the source a run with limit L can come to
Window(L) == 1..Min(L, Len(population))

\* a run with limit L stays on the first L tickets of the source, which it
\* takes in source order, and a run that was stopped has gone through just
\* these L; when each of them is short or was stored as the request arrived,
\* or when the run follows a run stopped by the same limit whose /embed calls
\* all succeeded, the run posts nothing to /embed and inserts nothing, and a
\* stopped run reports every qualifying ticket among them as skipped
SameWindow ==
  \A i \in BulkSlots :
    LET s == ing[i]
        L == s.limit.val
    IN  Capped(s) =>
          /\ Reached(s) <= L
          /\ s.queries <= QualifyingAmong(Min(L, Len(population)))
          /\ s.pc \in {"exists", "embed"} =>
               /\ s.processed + 1 \in Window(L)
               /\ Current(s) = population[s.processed + 1]
          /\ Stopped(s) => Examined(s) = L /\ s.processed = L /\ L <= Len(population)
          /\ ((\A k \in Window(L) :
                  Qualifies(population[k]) => population[k].id \in s.before)
               \/ s.afterSameCap) =>
               /\ s.posts = 0
               /\ s.inserted = 0
               /\ Stopped(s) =>
                    s.skipped = QualifyingAmong(L) /\ s.skipped + s.shortSummaries = L

\* C24: a run with limit L examines the first L records of the source in
\* source order, skipped records counting toward L like inserted ones; a
\* re-run with the same L examines the same records, so once these are stored
\* or short it inserts nothing, and no record beyond position L is reached by
\* a run with that limit.
C24_SameWindow == SameWindow

\* a run with limit 1 was stopped after a run with limit 1: it skipped the first
\* ticket and inserted nothing, while the second ticket of the source, which
\* qualifies, is still not stored
C24_Witness ==
  \E i \in BulkSlots :
    /\ ing[i].afterSameCap
    /\ Stopped(ing[i])
    /\ ing[i].limit.val = 1
    /\ ing[i].skipped = 1
    /\ ing[i].inserted = 0
    /\ Len(population) = 2
    /\ Qualifies(population[2])
    /\ population[2].id \notin StoredIds(rows)

----------------------------------------------------------------------------
(* C25 *)

\* nothing but the invocation of slot i has written the table since the
\* request of slot i arrived
NoOtherWriter(i) ==
  /\ slots = {i}
  /\ \A c \in Callers \ BulkSlots : Committed(c) => reqs[c].at <= ing[i].startedAt

\* the ticket numbers stored since the request of the invocation arrived
NewIds(s) == StoredIds(rows) \ s.before

\* without another writer, the ticket numbers new in the table are as many as
\* the invocation has counted in inserted, but for the one whose /embed call
\* has written and whose answer the loop has yet to read; a report carries
\* that number of them
InsertedAreNew ==
  \A i \in BulkSlots :
    LET s == ing[i]
    IN  (s.pc # "idle" /\ NoOtherWriter(i)) =>
          /\ s.before \subseteq StoredIds(rows)
          /\ Cardinality(NewIds(s)) = s.inserted + (IF Committed(i) THEN 1 ELSE 0)
          /\ Reported(s) => s.res.inserted = Cardinality(NewIds(s))

\* inserted rises only in the step that reads a success answer of /embed, by
\* one, and the ticket of that answer is in the table
InsertedOnSuccess ==
  \A i \in BulkSlots :
    (ing[i].pc # "idle" /\ ing'[i].pc # "idle" /\ ing'[i].inserted # ing[i].inserted
       /\ ing'[i].fetches >= ing[i].fetches) =>
      /\ ing'[i].inserted = ing[i].inserted + 1
      /\ ing[i].pc = "embed"
      /\ Committed(i)
      /\ reqs[i].ticketNumber \in StoredIds(rows)

\* C25: with no concurrent writer, a bulk run that returned a report reports
\* as inserted the number of ticket ids that are in the store after the run and
\* were not before it: inserted rises only after /embed answered success for
\* a record, and each such success is one new store entry.
C25_InsertedAreNew == []InsertedAreNew /\ [][InsertedOnSuccess]_vars

\* a run has reported one insertion although two of its /embed calls were
\* posted: one failed, and one ticket number is new in the table
C25_Witness ==
  \E i \in BulkSlots :
    /\ Reported(ing[i])
    /\ NoOtherWriter(i)
    /\ ing[i].res.inserted = 1
    /\ ing[i].failed = 1
    /\ Cardinality(NewIds(ing[i])) = 1

----------------------------------------------------------------------------
(* C26 *)

\* an invocation has sent one response when it has ended and none before; once
\* it has ended, neither the handler nor the /embed call it made can take a
\* step
OneResponse ==
  \A i \in BulkSlots :
    LET s == ing[i]
    IN  /\ s.responses <= 1
        /\ s.pc = "end" <=> s.responses = 1
        /\ s.pc = "end" <=> s.res # NoResponse
        /\ s.pc = "end" => (reqs[i].pc = "none" /\ Returned(i))

\* an ended invocation is left as it is, response and counts of page requests,
\* duplicate queries and /embed calls included, until a new request arrives
NothingAfterResponse ==
  \A i \in BulkSlots :
    ing[i].pc = "end" =>
      \/ ing'[i] = ing[i] /\ reqs'[i] = reqs[i]
      \/ /\ ing'[i].pc = "fetch"
         /\ ing'[i].responses = 0
         /\ ing'[i].fetches = 0
         /\ runs' = runs + 1

\* C26: every bulk-ingestion invocation that terminates sends exactly one
\* response: after the early-stop report, the invalid-JSON error, the final
\* report or the error of the catch, the handler fetches no page, queries no
\* store, calls no provider and sends no second response.
C26_OneResponse == []OneResponse /\ [][NothingAfterResponse]_vars

\* an invocation has answered with the invalid-JSON error on a later page,
\* after it had counted tickets of the pages before
C26_Witness ==
  \E i \in BulkSlots :
    /\ ing[i].pc = "end"
    /\ ing[i].res.kind = "invalid_json"
    /\ ing[i].processed >= 1
    /\ ing[i].page >= 2
    /\ ing[i].responses = 1

----------------------------------------------------------------------------
(* C27 *)

\* the request bulk ingestion has posted to /embed carries a summary without
\* white space at its ends and of at least 10 characters, which /embed takes
\* as it is and does not answer with the validation error; every ticket the
\* loop has gone through was counted as short, counted as skipped or posted to
\* /embed, and every posted one was answered but the one in flight
FilterAgrees ==
  \A i \in BulkSlots :
    LET s == ing[i]
        r == reqs[i]
        open == IF s.pc = "embed" THEN 1 ELSE 0
    IN  /\ r.pc # "none" =>
             /\ s.pc = "embed"
             /\ r.summary = s.summary
             /\ TrimmedLength(r.summary) >= 10
             /\ Len(r.summary) = TrimmedLength(r.summary)
             /\ CleanSummary(r.summary) = r.summary
             /\ r.pc \notin {"posted", "responded"} => r.clean = r.summary
             /\ r.pc = "responded" => r.res.kind # "validation"
        /\ s.pc # "idle" =>
             /\ s.processed = s.shortSummaries + s.skipped + s.posts - open
             /\ s.posts = s.inserted + s.failed + open

\* C27: the filter of bulk ingestion and the validation of /embed agree:
\* every record bulk ingestion forwards to /embed carries a trimmed summary of
\* at least 10 characters, so /embed never answers it with the minimum-length
\* error, and no record is left unclassified: each is short, a duplicate or
\* attempted.
C27_FilterAgrees == FilterAgrees

\* in one run a ticket whose summary trims to 9 characters was counted as
\* short and a ticket of exactly 10 characters was forwarded and answered ok
C27_Witness ==
  \E i \in BulkSlots :
    /\ ing[i].pc = "embed"
    /\ ing[i].shortSummaries >= 1
    /\ \E k \in 1..Len(population) :
         /\ population[k].summary # NoSummary
         /\ Len(population[k].summary) > 10
         /\ TrimmedLength(population[k].summary) = 9
    /\ Committed(i)
    /\ Len(reqs[i].clean) = 10

====
